---- MODULE Spec2Model ----
(***************************************************************************)
(* Model of the data-quality profiling script analyse.py: the profiling    *)
(* pass (one analyse_collection per enumerated collection), the flattening *)
(* of the report map into data_quality_report.csv, and                     *)
(* generate_column_distribution_report, which enumerates and materializes  *)
(* the collections a second time to write column_distincts.csv.            *)
(*                                                                         *)
(* A document is a sequence of key/value pairs with distinct keys (a       *)
(* Python dict, which keeps insertion order).  pandas.DataFrame(list of    *)
(* dicts) is modelled by what it does: columns in first-seen order, absent *)
(* keys filled with NaN, per-column dtype inference.                       *)
(***************************************************************************)
EXTENDS Integers, Sequences, FiniteSets, TLC

VARIABLES
  db,                   \* the database: sequence of [name, docs], in listing order
  pc,                   \* position of the script
  names,                \* the list the loop of line 70 iterates over
  idx,                  \* position of the running for loop in its list
  data_quality_report,  \* dict: sequence of [key, value] in insertion order
  summary,              \* data_quality_report.csv
  inv_names,            \* the list the loop of line 115 iterates over
  column_map,           \* dict of generate_column_distribution_report
  inventory,            \* column_distincts.csv
  raised,               \* the uncaught exception that ended the script, if any
  writes                \* number of changes other clients made to the database

vars == <<db, pc, names, idx, data_quality_report, summary, inv_names,
          column_map, inventory, raised, writes>>

----------------------------------------------------------------------------
(* Bounds of the model *)

MaxColls == 2
MaxDocs == 2
MaxDupDocs == 3
MaxOutlierDocs == 5
MaxWrites == 1

CollNames == {"a", "b", "c"}

----------------------------------------------------------------------------
(* Scalar values of documents *)

IntV(n) == [t |-> "int", v |-> n]
Null == [t |-> "null", v |-> 0]
NaN == [t |-> "nan", v |-> 0]
Text == [t |-> "str", v |-> 0]

\* pandas.isnull on a cell: None and NaN are both null
isnull(c) == c.t \in {"null", "nan"}

----------------------------------------------------------------------------
(* Generic helpers *)

SeqsUpTo(S, n) == UNION {[1..m -> S] : m \in 0..n}

InSeq(s, x) == \E i \in 1..Len(s) : s[i] = x

Range(s) == {s[i] : i \in 1..Len(s)}

RECURSIVE Blanks(_)
Blanks(n) == IF n <= 0 THEN <<>> ELSE <<"">> \o Blanks(n - 1)

\* Python max() over a non-empty collection of numbers
MaxOf(S) == CHOOSE m \in S : \A x \in S : x <= m

RECURSIVE Insert(_, _)
Insert(s, x) ==
  IF s = <<>> THEN <<x>>
  ELSE IF x <= Head(s) THEN <<x>> \o s
  ELSE <<Head(s)>> \o Insert(Tail(s), x)

RECURSIVE Sorted(_)
Sorted(s) == IF s = <<>> THEN <<>> ELSE Insert(Sorted(Tail(s)), Head(s))

----------------------------------------------------------------------------
(* Documents: Python dicts *)

Has(doc, c) == \E i \in 1..Len(doc) : doc[i].k = c

Get(doc, c) == doc[CHOOSE i \in 1..Len(doc) : doc[i].k = c].v

KeyOrders(F) ==
  UNION {{s \in [1..n -> F] : \A i, j \in 1..n : i # j => s[i] # s[j]}
           : n \in 0..Cardinality(F)}

DocsWithKeys(ks, V) ==
  {[i \in 1..Len(ks) |-> [k |-> ks[i], v |-> vs[i]]] : vs \in [1..Len(ks) -> V]}

AllDocs(F, V) == UNION {DocsWithKeys(ks, V) : ks \in KeyOrders(F)}

----------------------------------------------------------------------------
(* pandas.DataFrame(list(db[collection_name].find())) *)

RECURSIVE AppendNew(_, _)
AppendNew(cols, doc) ==
  IF doc = <<>> THEN cols
  ELSE AppendNew(IF InSeq(cols, Head(doc).k) THEN cols
                 ELSE Append(cols, Head(doc).k), Tail(doc))

\* columns: union of the documents' keys in first-seen order
RECURSIVE FirstSeen(_, _)
FirstSeen(cols, docs) ==
  IF docs = <<>> THEN cols
  ELSE FirstSeen(AppendNew(cols, Head(docs)), Tail(docs))

\* a key absent from a document is filled with NaN
RawCell(doc, c) == IF Has(doc, c) THEN Get(doc, c) ELSE NaN

\* dtype inference of one column from its raw cells
InferDType(cells) ==
  LET kinds == {cells[i].t : i \in 1..Len(cells)} IN
  IF "str" \in kinds THEN "object"
  ELSE IF "int" \in kinds
       THEN (IF kinds = {"int"} THEN "int64" ELSE "float64")
  ELSE IF "nan" \in kinds THEN "float64"
  ELSE "object"

\* in a float64 column None is stored as NaN
StoredCell(dtype, c) == IF dtype = "float64" /\ c.t = "null" THEN NaN ELSE c

DataFrame(docs) ==
  LET cols == FirstSeen(<<>>, docs)
      n == Len(docs)
      raw(c) == [i \in 1..n |-> RawCell(docs[i], c)]
      dt == [c \in Range(cols) |-> InferDType(raw(c))]
  IN [columns |-> cols,
      nrows |-> n,
      dtypes |-> dt,
      data |-> [i \in 1..n |->
                  [c \in Range(cols) |-> StoredCell(dt[c], RawCell(docs[i], c))]]]

\* DataFrame.empty: True when any axis has length 0
df_empty(df) == df.nrows = 0 \/ Len(df.columns) = 0

----------------------------------------------------------------------------
(* Floating-point results, kept exact as fractions; NaN is its own value *)

Fl(n, d) == [nan |-> FALSE, num |-> n, den |-> d]
FNaN == [nan |-> TRUE, num |-> 0, den |-> 1]

FSub(a, b) ==
  IF a.nan \/ b.nan THEN FNaN
  ELSE Fl(a.num * b.den - b.num * a.den, a.den * b.den)

FAdd(a, b) ==
  IF a.nan \/ b.nan THEN FNaN
  ELSE Fl(a.num * b.den + b.num * a.den, a.den * b.den)

\* 1.5 * a
FTimes1_5(a) == IF a.nan THEN FNaN ELSE Fl(3 * a.num, 2 * a.den)

\* comparisons with NaN are False
FLt(a, b) == ~a.nan /\ ~b.nan /\ a.num * b.den < b.num * a.den
FGt(a, b) == FLt(b, a)

\* a cell of a numeric column as a float
CellFloat(c) == IF c.t = "int" THEN Fl(c.v, 1) ELSE FNaN

----------------------------------------------------------------------------
(* Helper functions of analyse.py *)

get_missing_stats(df) ==
  LET cs == Range(df.columns)
      missing == [c \in cs |->
                    Cardinality({i \in 1..df.nrows : isnull(df.data[i][c])})]
  IN [MissingCount |-> missing,
      MissingPercent |-> [c \in cs |-> Fl(100 * missing[c], df.nrows)]]

get_dtype_stats(df) == df.dtypes

get_uniqueness(df) ==
  [c \in Range(df.columns) |->
     Cardinality({df.data[i][c] : i \in {j \in 1..df.nrows : ~isnull(df.data[j][c])}})]

\* the non-NaN values of a numeric column, in row order
RECURSIVE PresentFrom(_, _, _)
PresentFrom(df, c, i) ==
  IF i > df.nrows THEN <<>>
  ELSE (IF df.data[i][c].t = "int" THEN <<df.data[i][c].v>> ELSE <<>>)
       \o PresentFrom(df, c, i + 1)

\* Series.quantile(q4/4) with linear interpolation; NaN skipped; NaN if none
quantile(xs, q4) ==
  IF xs = <<>> THEN FNaN
  ELSE LET s == Sorted(xs)
           pos == q4 * (Len(s) - 1)
           k == pos \div 4
           r == pos % 4
       IN IF r = 0 THEN Fl(4 * s[k + 1], 4)
          ELSE Fl(4 * s[k + 1] + r * (s[k + 2] - s[k + 1]), 4)

lower_fence(xs) ==
  LET q1 == quantile(xs, 1)
      q3 == quantile(xs, 3)
  IN FSub(q1, FTimes1_5(FSub(q3, q1)))

upper_fence(xs) ==
  LET q1 == quantile(xs, 1)
      q3 == quantile(xs, 3)
  IN FAdd(q3, FTimes1_5(FSub(q3, q1)))

\* line 40 with <= and >=: a value on a fence counted
is_outlier_inclusive(lower, upper, cell) ==
  LET x == CellFloat(cell) IN
  ~x.nan /\ ~lower.nan /\ ~upper.nan /\ (~FGt(x, lower) \/ ~FLt(x, upper))

\* line 40: the row mask; a comparison with NaN is False
is_outlier(lower, upper, cell) ==
  FLt(CellFloat(cell), lower) \/ FGt(CellFloat(cell), upper)

RECURSIVE SeqSum(_)
SeqSum(s) == IF s = <<>> THEN 0 ELSE Head(s) + SeqSum(Tail(s))

numeric_cols(df) == {c \in Range(df.columns) : df.dtypes[c] \in {"int64", "float64"}}

get_outliers(df) ==
  [c \in numeric_cols(df) |->
     LET xs == PresentFrom(df, c, 1)
         lower == lower_fence(xs)
         upper == upper_fence(xs)
     IN
     [OutlierCount |->
        Cardinality({i \in 1..df.nrows : is_outlier(lower, upper, df.data[i][c])}),
      Min |-> IF xs = <<>> THEN FNaN ELSE Fl(Sorted(xs)[1], 1),
      Max |-> IF xs = <<>> THEN FNaN ELSE Fl(Sorted(xs)[Len(xs)], 1),
      Mean |-> IF xs = <<>> THEN FNaN ELSE Fl(SeqSum(xs), Len(xs))]]

\* rows compare equal cell by cell; null cells are equal to each other
CellEq(a, b) == (isnull(a) /\ isnull(b)) \/ a = b

RowEq(df, i, j) == \A c \in Range(df.columns) : CellEq(df.data[i][c], df.data[j][c])

\* DataFrame.duplicated(keep=False).sum(): first occurrences counted too
get_duplicate_stats_keep_false(df) ==
  Cardinality({i \in 1..df.nrows : \E j \in (1..df.nrows) \ {i} : RowEq(df, i, j)})

\* DataFrame.duplicated(keep='first').sum()
get_duplicate_stats(df) ==
  Cardinality({i \in 1..df.nrows : \E j \in 1..(i - 1) : RowEq(df, i, j)})

EmptyReport == [note |-> "Empty collection"]

analyse_collection(docs) ==
  LET df == DataFrame(docs) IN
  IF df_empty(df) THEN EmptyReport
  ELSE [RowCount |-> df.nrows,
        ColumnCount |-> Len(df.columns),
        MissingValues |-> get_missing_stats(df),
        DataTypes |-> get_dtype_stats(df),
        Uniqueness |-> get_uniqueness(df),
        Outliers |-> get_outliers(df),
        DuplicateRows |-> get_duplicate_stats(df)]

----------------------------------------------------------------------------
(* Python dicts keyed by collection name *)

DictHas(d, key) == \E i \in 1..Len(d) : d[i].key = key

\* d[key] = value: a new key is appended, an existing key keeps its place
DictSet(d, key, value) ==
  IF DictHas(d, key)
  THEN [i \in 1..Len(d) |-> IF d[i].key = key THEN [key |-> key, value |-> value]
                            ELSE d[i]]
  ELSE Append(d, [key |-> key, value |-> value])

DictGet(d, key) == d[CHOOSE i \in 1..Len(d) : d[i].key = key].value

----------------------------------------------------------------------------
(* The database, as pymongo shows it *)

\* db.list_collection_names()
list_collection_names(d) == [i \in 1..Len(d) |-> d[i].name]

\* list(db[collection_name].find()): a collection that does not exist is empty
find(d, name) ==
  IF \E i \in 1..Len(d) : d[i].name = name
  THEN d[CHOOSE i \in 1..Len(d) : d[i].name = name].docs
  ELSE <<>>

----------------------------------------------------------------------------
(* Flattening, lines 73-106 *)

Num(n) == [t |-> "num", v |-> n]
NA_token == [t |-> "N/A", v |-> 0]

\* lines 95-100: missing_df has the collection's columns as its index, so the
\* test looks for a column called "MissingPercent" and .loc selects that
\* column's MissingCount and MissingPercent
MissingPercentOver50(report) ==
  LET index == DOMAIN report.MissingValues.MissingPercent IN
  IF index # {} /\ "MissingPercent" \in index
  THEN Num((IF report.MissingValues.MissingCount["MissingPercent"] > 50
            THEN 1 ELSE 0)
           + (IF FGt(report.MissingValues.MissingPercent["MissingPercent"],
                     Fl(50, 1))
              THEN 1 ELSE 0))
  ELSE NA_token

flat_row(collection, report) ==
  IF "note" \in DOMAIN report
  THEN [Collection |-> collection,
        RowCount |-> 0,
        ColumnCount |-> 0,
        DuplicateRows |-> NA_token,
        MissingPercentOver50 |-> NA_token]
  ELSE [Collection |-> collection,
        RowCount |-> report.RowCount,
        ColumnCount |-> report.ColumnCount,
        DuplicateRows |-> Num(report.DuplicateRows),
        MissingPercentOver50 |-> MissingPercentOver50(report)]

\* the loop of line 76 leaving out the collections with the empty marker
flat_records_skipping_empty(reports) ==
  LET kept == SelectSeq(reports, LAMBDA e : "note" \notin DOMAIN e.value)
  IN [i \in 1..Len(kept) |-> flat_row(kept[i].key, kept[i].value)]

flat_records(reports) ==
  [i \in 1..Len(reports) |-> flat_row(reports[i].key, reports[i].value)]

----------------------------------------------------------------------------
(* generate_column_distribution_report, lines 112-132 *)

\* line 117
column_list(docs) ==
  LET df == DataFrame(docs) IN IF ~df_empty(df) THEN df.columns ELSE <<>>

\* the result of an expression that raises ValueError instead of returning
ValueError == -1

\* line 120 written as max(..., default=0)
max_len_default(cmap) ==
  IF cmap = <<>> THEN 0
  ELSE MaxOf({Len(cmap[i].value) : i \in 1..Len(cmap)})

\* line 120; max() of an empty sequence raises ValueError
max_len(cmap) ==
  IF cmap = <<>> THEN ValueError
  ELSE MaxOf({Len(cmap[i].value) : i \in 1..Len(cmap)})

\* line 125 without the padding
inventory_row_unpadded(file_name, cols, width) == <<file_name>> \o cols

\* line 125
inventory_row(file_name, cols, width) ==
  <<file_name>> \o cols \o Blanks(width - Len(cols))

\* lines 123-126
inventory_rows(cmap) ==
  [i \in 1..Len(cmap) |-> inventory_row(cmap[i].key, cmap[i].value, max_len(cmap))]

\* line 129, the number of Column_i headers after "File Name"
header_slots(cmap) == max_len(cmap)

----------------------------------------------------------------------------
(* Initial states *)

MainFields == {"x", "MissingPercent"}
MainValues == {IntV(1)}
MainDocs == AllDocs(MainFields, MainValues)

\* every database with the collections ns, in this order, holding at most
\* budget documents in total
RECURSIVE Fill(_, _, _)
Fill(ns, D, budget) ==
  IF ns = <<>> THEN {<<>>}
  ELSE UNION {{<<[name |-> Head(ns), docs |-> ds]>> \o rest
                 : rest \in Fill(Tail(ns), D, budget - Len(ds))}
                : ds \in SeqsUpTo(D, budget)}

Databases ==
  UNION {Fill(ns, MainDocs, MaxDocs)
           : ns \in {s \in KeyOrders(CollNames) : Len(s) <= MaxColls}}

NotWritten == [written |-> FALSE, rows |-> <<>>, slots |-> 0]
NoError == [at |-> "none", coll |-> ""]

InitRun ==
  /\ pc = "list"
  /\ names = <<>>
  /\ idx = 0
  /\ data_quality_report = <<>>
  /\ summary = NotWritten
  /\ inv_names = <<>>
  /\ column_map = <<>>
  /\ inventory = NotWritten
  /\ raised = NoError
  /\ writes = 0

Init == db \in Databases /\ InitRun

----------------------------------------------------------------------------
(* The script, top to bottom *)

\* line 70: the iterable of the for loop is evaluated once
ListCollections ==
  /\ pc = "list"
  /\ names' = list_collection_names(db)
  /\ idx' = 1
  /\ pc' = IF db = <<>> THEN "flatten" ELSE "analyse"
  /\ UNCHANGED <<db, data_quality_report, summary, inv_names, column_map,
                 inventory, raised, writes>>

\* line 71: one iteration of the profiling loop
AnalyseCollection ==
  /\ pc = "analyse"
  /\ data_quality_report' =
       DictSet(data_quality_report, names[idx],
               analyse_collection(find(db, names[idx])))
  /\ idx' = idx + 1
  /\ pc' = IF idx = Len(names) THEN "flatten" ELSE "analyse"
  /\ UNCHANGED <<db, names, summary, inv_names, column_map, inventory, raised,
                 writes>>

\* lines 54-65 hold no try/except: an exception of find() or of a calculator
\* leaves the loop and the script
AnalyseRaises ==
  /\ pc = "analyse"
  /\ \E fault \in {"find", "calculator"} :
       /\ fault = "calculator" => ~df_empty(DataFrame(find(db, names[idx])))
       /\ raised' = [at |-> fault, coll |-> names[idx]]
  /\ pc' = "crashed"
  /\ UNCHANGED <<db, names, idx, data_quality_report, summary, inv_names,
                 column_map, inventory, writes>>

\* lines 74-106
Flatten ==
  /\ pc = "flatten"
  /\ summary' = [written |-> TRUE,
                 rows |-> flat_records(data_quality_report),
                 slots |-> 0]
  /\ pc' = "inv_list"
  /\ UNCHANGED <<db, names, idx, data_quality_report, inv_names, column_map,
                 inventory, raised, writes>>

\* line 115: the collections are listed again
InvListCollections ==
  /\ pc = "inv_list"
  /\ inv_names' = list_collection_names(db)
  /\ idx' = 1
  /\ pc' = IF db = <<>> THEN "inv_build" ELSE "inv_scan"
  /\ UNCHANGED <<db, names, data_quality_report, summary, column_map,
                 inventory, raised, writes>>

\* lines 116-117: one iteration, the collection is read again
InvScan ==
  /\ pc = "inv_scan"
  /\ column_map' = DictSet(column_map, inv_names[idx],
                           column_list(find(db, inv_names[idx])))
  /\ idx' = idx + 1
  /\ pc' = IF idx = Len(inv_names) THEN "inv_build" ELSE "inv_scan"
  /\ UNCHANGED <<db, names, data_quality_report, summary, inv_names,
                 inventory, raised, writes>>

InvScanRaises ==
  /\ pc = "inv_scan"
  /\ raised' = [at |-> "find", coll |-> inv_names[idx]]
  /\ pc' = "crashed"
  /\ UNCHANGED <<db, names, idx, data_quality_report, summary, inv_names,
                 column_map, inventory, writes>>

\* lines 120-131
InvBuild ==
  /\ pc = "inv_build"
  /\ max_len(column_map) # ValueError
  /\ inventory' = [written |-> TRUE,
                   rows |-> inventory_rows(column_map),
                   slots |-> header_slots(column_map)]
  /\ pc' = "done"
  /\ UNCHANGED <<db, names, idx, data_quality_report, summary, inv_names,
                 column_map, raised, writes>>

\* line 120 with no collection: ValueError, uncaught
InvBuildRaises ==
  /\ pc = "inv_build"
  /\ max_len(column_map) = ValueError
  /\ raised' = [at |-> "max", coll |-> ""]
  /\ pc' = "crashed"
  /\ UNCHANGED <<db, names, idx, data_quality_report, summary, inv_names,
                 column_map, inventory, writes>>

Next ==
  \/ ListCollections
  \/ AnalyseCollection
  \/ AnalyseRaises
  \/ Flatten
  \/ InvListCollections
  \/ InvScan
  \/ InvScanRaises
  \/ InvBuild
  \/ InvBuildRaises

Spec == Init /\ [][Next]_vars

----------------------------------------------------------------------------
(* Other clients of the database server, while the script runs *)

Running == pc \notin {"done", "crashed"}

DropCollection ==
  /\ Running /\ writes < MaxWrites
  /\ \E i \in 1..Len(db) :
       db' = SubSeq(db, 1, i - 1) \o SubSeq(db, i + 1, Len(db))
  /\ writes' = writes + 1
  /\ UNCHANGED <<pc, names, idx, data_quality_report, summary, inv_names,
                 column_map, inventory, raised>>

\* the first insert into a new name creates the collection
CreateCollection ==
  /\ Running /\ writes < MaxWrites
  /\ \E n \in CollNames \ Range(list_collection_names(db)), doc \in MainDocs :
       db' = Append(db, [name |-> n, docs |-> <<doc>>])
  /\ writes' = writes + 1
  /\ UNCHANGED <<pc, names, idx, data_quality_report, summary, inv_names,
                 column_map, inventory, raised>>

InsertDocument ==
  /\ Running /\ writes < MaxWrites
  /\ \E i \in 1..Len(db), doc \in MainDocs :
       db' = [db EXCEPT ![i].docs = Append(@, doc)]
  /\ writes' = writes + 1
  /\ UNCHANGED <<pc, names, idx, data_quality_report, summary, inv_names,
                 column_map, inventory, raised>>

NextShared ==
  \/ Next
  \/ DropCollection
  \/ CreateCollection
  \/ InsertDocument

SpecShared == Init /\ [][NextShared]_vars

----------------------------------------------------------------------------
(* The profiling pass alone, on one collection drawn from wider value sets *)

ProfileNext ==
  \/ ListCollections
  \/ AnalyseCollection
  \/ AnalyseRaises

\* documents with the keys x and y, in this order, either of them optional
DupDocs ==
  {xpart \o ypart :
     xpart \in {<<>>} \cup {<<[k |-> "x", v |-> val]>> : val \in {IntV(1), Null, Text}},
     ypart \in {<<>>, <<[k |-> "y", v |-> IntV(1)]>>}}

InitDuplicates ==
  /\ db \in {<<[name |-> "a", docs |-> ds]>>
               : ds \in UNION {[1..m -> DupDocs] : m \in 1..MaxDupDocs}}
  /\ InitRun

SpecDuplicates == InitDuplicates /\ [][ProfileNext]_vars

\* documents {id: i, amt: value}, amt optional
Amounts == {IntV(10), IntV(11), IntV(12), IntV(1000), NaN}

AmtParts == {<<>>} \cup {<<[k |-> "amt", v |-> val]>> : val \in Amounts}

InitOutliers ==
  /\ db \in {<<[name |-> "orders",
               docs |-> [i \in 1..Len(ps) |->
                          <<[k |-> "id", v |-> IntV(i)]>> \o ps[i]]]>>
               : ps \in UNION {[1..m -> AmtParts] : m \in 1..MaxOutlierDocs}}
  /\ InitRun

SpecOutliers == InitOutliers /\ [][ProfileNext]_vars

----------------------------------------------------------------------------
(* Notions the properties are stated with, defined on the documents          *)
(* themselves and not on the DataFrame                                       *)

KeySet(docs) == UNION {{docs[i][j].k : j \in 1..Len(docs[i])} : i \in 1..Len(docs)}

FirstDoc(docs, c) == CHOOSE i \in 1..Len(docs) :
                       Has(docs[i], c) /\ \A j \in 1..(i - 1) : ~Has(docs[j], c)

KeyPos(doc, c) == CHOOSE j \in 1..Len(doc) : doc[j].k = c

\* column c is seen before column d when the documents are read in order
SeenBefore(docs, c, d) ==
  \/ FirstDoc(docs, c) < FirstDoc(docs, d)
  \/ /\ FirstDoc(docs, c) = FirstDoc(docs, d)
     /\ KeyPos(docs[FirstDoc(docs, c)], c) < KeyPos(docs[FirstDoc(docs, d)], d)

IsFirstSeenList(cells, docs) ==
  /\ Len(cells) = Cardinality(KeySet(docs))
  /\ Range(cells) = KeySet(docs)
  /\ \A a, b \in 1..Len(cells) : a < b => SeenBefore(docs, cells[a], cells[b])

\* the fields a document supplies, with their values
Supplied(doc) == {<<doc[j].k, doc[j].v>> : j \in {i \in 1..Len(doc) : ~isnull(doc[i].v)}}

DistinctDocuments(docs) == Cardinality({Supplied(docs[i]) : i \in 1..Len(docs)})

Perms(n) == {p \in [1..n -> 1..n] : \A i, j \in 1..n : i # j => p[i] # p[j]}

Reports == {data_quality_report[i] : i \in 1..Len(data_quality_report)}

Profiled == {e \in Reports : "note" \notin DOMAIN e.value}

----------------------------------------------------------------------------
(* C1 *)

Over50Count(report) ==
  Cardinality({c \in DOMAIN report.MissingValues.MissingPercent :
                 FGt(report.MissingValues.MissingPercent[c], Fl(50, 1))})

\* C1: for every collection whose report is not the empty marker, the row of
\* the summary table carries RowCount, ColumnCount and DuplicateRows of the
\* report unchanged, and MissingPercentOver50 is the number of columns whose
\* MissingPercent is above 50, a number and never N/A.
C1_DerivedCountIsColumnsOver50 ==
  summary.written =>
    \A i \in 1..Len(summary.rows) :
      LET report == data_quality_report[i].value
          row == summary.rows[i]
      IN "note" \notin DOMAIN report =>
           /\ row.RowCount = report.RowCount
           /\ row.ColumnCount = report.ColumnCount
           /\ row.DuplicateRows = Num(report.DuplicateRows)
           /\ row.MissingPercentOver50 = Num(Over50Count(report))

----------------------------------------------------------------------------
(* C2 *)

\* C2: a failure of find() or of a calculator for one collection becomes an
\* error marker under that collection's key in the report map, and the run
\* goes on instead of ending.
C2_FailureBecomesMarker ==
  raised.at \in {"find", "calculator"} =>
    /\ pc # "crashed"
    /\ DictHas(data_quality_report, raised.coll)
    /\ "error" \in DOMAIN DictGet(data_quality_report, raised.coll)

----------------------------------------------------------------------------
(* C3 *)

----------------------------------------------------------------------------
(* C4 *)

MaxWidth == MaxOf({Cardinality(KeySet(db[i].docs)) : i \in 1..Len(db)})

\* C4: every row of the inventory table has 1 + maxWidth cells; after the
\* name come the collection's columns in first-seen order, then only blanks;
\* an empty collection gives the name and maxWidth blanks.
C4_InventoryRowsPadded ==
  inventory.written =>
    /\ Len(inventory.rows) = Len(db)
    /\ inventory.slots = MaxWidth
    /\ \A i \in 1..Len(inventory.rows) :
         LET row == inventory.rows[i]
             docs == db[i].docs
             n == Cardinality(KeySet(docs))
         IN /\ Len(row) = 1 + MaxWidth
            /\ row[1] = db[i].name
            /\ IsFirstSeenList(SubSeq(row, 2, n + 1), docs)
            /\ \A k \in (n + 2)..Len(row) : row[k] = ""
            /\ Len(docs) = 0 => \A k \in 2..Len(row) : row[k] = ""

\* an empty collection padded to the width of one whose columns are not in
\* lexical order
C4_Witness ==
  /\ inventory.written
  /\ \E i, j \in 1..Len(db) :
       /\ db[i].docs = <<>>
       /\ inventory.rows[i] = <<db[i].name, "", "">>
       /\ inventory.rows[j] = <<db[j].name, "x", "MissingPercent">>

----------------------------------------------------------------------------
(* C5 *)

\* C5: with zero collections the inventory builder never writes a table and
\* the run can only end in the failure raised at max().
C5_NoCollectionsIsFatal ==
  Len(db) = 0 =>
    /\ ~inventory.written
    /\ pc # "done"
    /\ ~(ENABLED Next) => (pc = "crashed" /\ raised.at = "max")

C5_Witness ==
  Len(db) = 0 /\ pc = "crashed" /\ raised.at = "max" /\ summary.written

----------------------------------------------------------------------------
(* C6 *)

\* C6: the summary table has exactly one row per enumerated collection, in
\* the order of the enumeration of line 70.
C6_SummaryFollowsEnumeration ==
  summary.written =>
    [i \in 1..Len(summary.rows) |-> summary.rows[i].Collection] = names

\* two collections listed against lexical order, one empty and one not
C6_Witness ==
  /\ summary.written
  /\ names = <<"b", "a">>
  /\ summary.rows[1].RowCount = 0
  /\ summary.rows[2].RowCount > 0

----------------------------------------------------------------------------
(* C7 *)

Permuted(docs, p) == [k \in 1..Len(docs) |-> docs[p[k]]]

\* C7: DuplicateRows of a profiled collection is the number of documents
\* minus the number of distinct documents, and is the same for every
\* permutation of the documents.
C7_DuplicatesCountRepeats ==
  \A e \in Profiled :
    LET docs == find(db, e.key) IN
    /\ e.value.DuplicateRows = Len(docs) - DistinctDocuments(docs)
    /\ \A p \in Perms(Len(docs)) :
         get_duplicate_stats(DataFrame(Permuted(docs, p))) = e.value.DuplicateRows

\* a document repeated after a different one: one repeat is counted
C7_Witness ==
  \E e \in Profiled :
    LET docs == find(db, e.key) IN
    /\ Len(docs) = 3
    /\ docs[1] = docs[3]
    /\ Supplied(docs[1]) # Supplied(docs[2])
    /\ e.value.DuplicateRows = 1

----------------------------------------------------------------------------
(* C8 *)

PresentRows(docs, c) ==
  {i \in 1..Len(docs) : Has(docs[i], c) /\ Get(docs[i], c).t = "int"}

ValueAt(docs, c, i) == Get(docs[i], c).v

\* the k-th smallest present value of column c
OrderStat(docs, c, k) ==
  LET P == PresentRows(docs, c) IN
  CHOOSE v \in {ValueAt(docs, c, i) : i \in P} :
    /\ Cardinality({i \in P : ValueAt(docs, c, i) < v}) < k
    /\ k <= Cardinality({i \in P : ValueAt(docs, c, i) <= v})

\* four times the q4/4 quantile, by linear interpolation between order statistics
Quartile4(docs, c, q4) ==
  LET h == q4 * (Cardinality(PresentRows(docs, c)) - 1)
      lo == OrderStat(docs, c, (h \div 4) + 1)
      hi == OrderStat(docs, c, (h \div 4) + (IF h % 4 = 0 THEN 1 ELSE 2))
  IN 4 * lo + (h % 4) * (hi - lo)

\* eight times Q1 - 1.5 * IQR and eight times Q3 + 1.5 * IQR
LowerBound8(docs, c) ==
  LET q1 == Quartile4(docs, c, 1)
      q3 == Quartile4(docs, c, 3)
  IN 2 * q1 - 3 * (q3 - q1)

UpperBound8(docs, c) ==
  LET q1 == Quartile4(docs, c, 1)
      q3 == Quartile4(docs, c, 3)
  IN 2 * q3 + 3 * (q3 - q1)

\* the present values strictly outside [lo8 / 8, hi8 / 8]
OutsideFences(docs, c, lo8, hi8) ==
  {i \in PresentRows(docs, c) :
     8 * ValueAt(docs, c, i) < lo8 \/ 8 * ValueAt(docs, c, i) > hi8}

\* C8: for a numeric column with at least 4 present values the lower fence is
\* at most the upper fence, and OutlierCount is the number of present values
\* strictly outside the fences; the amounts 10, 1000, 12, 11 give 1.
C8_OutlierCountOutsideFences ==
  \A e \in Profiled :
    LET docs == find(db, e.key) IN
    \A c \in DOMAIN e.value.Outliers :
      Cardinality(PresentRows(docs, c)) >= 4 =>
        LET xs == PresentFrom(DataFrame(docs), c, 1)
            lower == lower_fence(xs)
            upper == upper_fence(xs)
            lo8 == LowerBound8(docs, c)
            hi8 == UpperBound8(docs, c)
        IN /\ ~FLt(upper, lower)
           /\ lo8 <= hi8
           /\ lower.num * 8 = lo8 * lower.den
           /\ upper.num * 8 = hi8 * upper.den
           /\ e.value.Outliers[c].OutlierCount
                = Cardinality(OutsideFences(docs, c, lo8, hi8))
           /\ xs = <<10, 1000, 12, 11>> => e.value.Outliers[c].OutlierCount = 1

\* four present amounts and one missing, the 1000 is the only outlier
C8_Witness ==
  \E e \in Profiled :
    LET docs == find(db, e.key) IN
    /\ Len(docs) = 5
    /\ "amt" \in DOMAIN e.value.Outliers
    /\ Cardinality(PresentRows(docs, "amt")) = 4
    /\ \E i \in 1..5 : Has(docs[i], "amt") /\ Get(docs[i], "amt").t = "int"
                       /\ Get(docs[i], "amt").v = 1000
    /\ e.value.Outliers["amt"].OutlierCount = 1

----------------------------------------------------------------------------
(* C9 *)

\* C9: the Outliers map has an entry for a column only if some document
\* supplies a number for it.
C9_OutliersOnlyForPresentNumbers ==
  \A e \in Profiled :
    \A c \in DOMAIN e.value.Outliers : PresentRows(find(db, e.key), c) # {}

----------------------------------------------------------------------------
(* C10 *)

NonBlank(row) == Cardinality({k \in 2..Len(row) : row[k] # ""})

\* C10: the collections are listed once, so the two tables describe the same
\* collections, in the same order, with the same numbers of columns, also
\* when other clients change the database during the run.
C10_TablesDescribeSameCollections ==
  (summary.written /\ inventory.written) =>
    /\ inv_names = names
    /\ Len(inventory.rows) = Len(summary.rows)
    /\ \A i \in 1..Len(summary.rows) :
         /\ inventory.rows[i][1] = summary.rows[i].Collection
         /\ NonBlank(inventory.rows[i]) = summary.rows[i].ColumnCount

====
